---- MODULE Spec2Model ----
(***************************************************************************)
(* Data Quality Sentry: the check runner (checks/run_checks.py, main) and  *)
(* the fix steps (checks/fixers.py) as a state machine.  One run of main   *)
(* is a walk of pc through the stages evaluate -> export samples -> fix    *)
(* pipeline -> guardrails -> artifacts -> viz -> results.json.  The inputs *)
(* of a run (rule document, dataset, command line) are fixed by Init.      *)
(*                                                                         *)
(* Cells.  A dataset cell is a record [k, n, pad]:                         *)
(*   k = "nan"     missing value (NaN/None)                                *)
(*   k = "num"     number n                                                *)
(*   k = "numstr"  text that spells the number n (object column)           *)
(*   k = "word"    text number n of the vocabulary, not a number or date   *)
(*   k = "date"    text that parses as a date whose age is n days          *)
(*   k = "nanstr"  the text "nan" (what astype(str) makes of a NaN)        *)
(*   k = "ts"      a parsed Timestamp whose age is n days                  *)
(*   k = "blank"   text of whitespace only (pad) or the empty text         *)
(* pad = TRUE: the text carries leading/trailing whitespace.               *)
(* The tabular library is pandas < 3 (text columns have object dtype).     *)
(***************************************************************************)
EXTENDS Integers, Sequences, FiniteSets, TLC

\* ------------------------------------------------------------ bounds
MaxRows == 2
MaxRuns == 2

\* ------------------------------------------------------------ program constants
SampleLimit == 200
HeatmapMaxCols == 14
HeatmapRows == 10
HeatmapScanRows == 1000

\* ------------------------------------------------------------ optional values
None == [has |-> FALSE, v |-> 0]
Some(x) == [has |-> TRUE, v |-> x]

\* ------------------------------------------------------------ cells
NaN == [k |-> "nan", n |-> 0, pad |-> FALSE]
Num(x) == [k |-> "num", n |-> x, pad |-> FALSE]
NumStr(x) == [k |-> "numstr", n |-> x, pad |-> FALSE]
Word(x) == [k |-> "word", n |-> x, pad |-> FALSE]
Padded(x) == [k |-> "word", n |-> x, pad |-> TRUE]
DateStr(x) == [k |-> "date", n |-> x, pad |-> FALSE]
NanStr == [k |-> "nanstr", n |-> 0, pad |-> FALSE]
Ts(x) == [k |-> "ts", n |-> x, pad |-> FALSE]
Blank == [k |-> "blank", n |-> 0, pad |-> TRUE]

ColNames == {"a", "b"}
ColOrder == <<"a", "b">>

\* Series.isna()
IsNa(c) == c.k = "nan"

\* Series.astype(str): a NaN becomes the text "nan", a number its text,
\* a Timestamp its ISO text.
AsTypeStr(c) ==
  CASE c.k = "nan" -> NanStr
    [] c.k = "num" -> NumStr(c.n)
    [] c.k = "ts" -> DateStr(c.n)
    [] OTHER -> c

\* Series.str.strip()
Strip(c) == [c EXCEPT !.pad = FALSE]

\* pd.to_numeric(errors="coerce"): None when the value does not coerce.
ToNumeric(c) ==
  IF c.k \in {"num", "numstr"} /\ ~c.pad THEN Some(c.n) ELSE None

\* Age in days of a number read as nanoseconds since 1970.
EpochAge == 9

\* pd.to_datetime(errors="coerce"): the age in days of the parsed value, None
\* for NaT.  A number of a numeric column is read as an epoch offset.
ToDatetime(c) ==
  CASE c.k \in {"date", "ts"} /\ ~c.pad -> Some(c.n)
    [] c.k = "num" -> Some(EpochAge)
    [] OTHER -> None

\* ------------------------------------------------------------ sequences
RECURSIVE Flatten(_)
Flatten(ss) == IF ss = <<>> THEN <<>> ELSE Head(ss) \o Flatten(Tail(ss))

RECURSIVE SumSeq(_)
SumSeq(s) == IF s = <<>> THEN 0 ELSE Head(s) + SumSeq(Tail(s))

Range(s) == {s[i] : i \in DOMAIN s}

\* The members of the position set m, ascending.
RECURSIVE Ascending(_)
Ascending(m) ==
  IF m = {} THEN <<>>
  ELSE LET lo == CHOOSE i \in m : \A j \in m : i <= j
       IN <<lo>> \o Ascending(m \ {lo})

\* DataFrame.head(n)
HeadN(s, n) == IF Len(s) <= n THEN s ELSE SubSeq(s, 1, n)

\* df.loc[mask]: the rows at the positions of mask, in dataset order.
Loc(df, mask) == [i \in 1..Cardinality(mask) |-> df[Ascending(mask)[i]]]

\* What to_csv(index=False) keeps of rows: the cells, not the index.
Cells(rows) == [i \in DOMAIN rows |-> rows[i].c]

\* ------------------------------------------------------------ rule document
NoSeq == [has |-> FALSE, v |-> <<>>]
NoCell == [has |-> FALSE, v |-> NaN]
NoFrac == [has |-> FALSE, v |-> <<0, 1>>]
NoCol == "<none>"

\* chk.get(key) of a check without the key
BaseChk ==
  [type |-> "", subset |-> NoSeq, min |-> None, max |-> None, allowed |-> NoSeq,
   max_nulls |-> None, max_null_frac |-> NoFrac, fill_value |-> NoCell,
   max_age_days |-> None, parse_format |-> None]

DupChk(subset) == [BaseChk EXCEPT !.type = "duplicate", !.subset = subset]
RangeChk(lo, hi) == [BaseChk EXCEPT !.type = "range", !.min = lo, !.max = hi]
EnumChk(allowed) == [BaseChk EXCEPT !.type = "enum", !.allowed = allowed]
NullChk(n, f, fill) ==
  [BaseChk EXCEPT !.type = "null_rate", !.max_nulls = n, !.max_null_frac = f,
                  !.fill_value = fill]
FreshChk(age) == [BaseChk EXCEPT !.type = "freshness", !.max_age_days = age]
OtherChk == [BaseChk EXCEPT !.type = "custom"]

\* ------------------------------------------------------------ row masks
\* A mask is the set of flagged positions of the dataset.

\* Variant: only a missing subset means all columns, an empty list is used
\* as given.
SubsetColsUnlessNone(subset) ==
  IF subset.has THEN Range(subset.v) ELSE ColNames

\* subset or df.columns.tolist()
SubsetCols(subset) ==
  IF subset.has /\ subset.v # <<>> THEN Range(subset.v) ELSE ColNames

SameOn(r1, r2, cols) == \A col \in cols : r1.c[col] = r2.c[col]

\* df.duplicated(subset=..., keep="first")
MaskDuplicate(df, subset) ==
  {i \in DOMAIN df : \E j \in 1..(i - 1) : SameOn(df[j], df[i], SubsetCols(subset))}

\* _mask_range when at least one bound is set
MaskRange(df, col, lo, hi) ==
  {i \in DOMAIN df :
     LET s == ToNumeric(df[i].c[col])
     IN s.has /\ ((lo.has /\ s.v < lo.v) \/ (hi.has /\ s.v > hi.v))}

\* _mask_range raises AttributeError when both bounds are None: the mask
\* is then the bool False, which has no fillna.
RangeRaises(lo, hi) == ~lo.has /\ ~hi.has

\* Series.isin(allowed)
IsIn(c, allowed) == \E i \in DOMAIN allowed : allowed[i] = c

\* _mask_enum
MaskEnum(df, col, allowed) == {i \in DOMAIN df : ~IsIn(df[i].c[col], allowed)}

\* Variant: text of whitespace only counts as missing too.
MaskNullOrBlank(df, col) == {i \in DOMAIN df : IsNa(df[i].c[col]) \/ df[i].c[col].k = "blank"}

MaskNull(df, col) == {i \in DOMAIN df : IsNa(df[i].c[col])}

\* Variant: without max_age_days nothing is flagged.
MaskFreshnessWhenBounded(df, col, max_age_days) ==
  {i \in DOMAIN df :
     LET cell == df[i].c[col]
         parsed == ToDatetime(cell)
     IN max_age_days.has
        /\ ((~parsed.has /\ ~IsNa(cell)) \/ (parsed.has /\ parsed.v > max_age_days.v))}

\* _mask_freshness
MaskFreshness(df, col, max_age_days) ==
  {i \in DOMAIN df :
     LET cell == df[i].c[col]
         parsed == ToDatetime(cell)
     IN (~parsed.has /\ ~IsNa(cell))
        \/ (max_age_days.has /\ parsed.has /\ parsed.v > max_age_days.v)}

\* ------------------------------------------------------------ evaluation
\* The "params" a Check Result echoes.
Params(chk) ==
  CASE chk.type = "duplicate" -> DupChk(chk.subset)
    [] chk.type = "range" -> RangeChk(chk.min, chk.max)
    [] chk.type = "enum" ->
         EnumChk(IF chk.allowed.has THEN chk.allowed ELSE [has |-> TRUE, v |-> <<>>])
    [] chk.type = "null_rate" -> NullChk(chk.max_nulls, chk.max_null_frac, NoCell)
    [] chk.type = "freshness" -> FreshChk(chk.max_age_days)
    [] OTHER -> BaseChk

PassFail(isFail) == IF isFail THEN "fail" ELSE "pass"

\* One table-level duplicate check.
DupResult(tname, chk, df) ==
  LET cnt == Cardinality(MaskDuplicate(df, chk.subset))
  IN [name |-> <<tname, "duplicate">>, table |-> tname, column |-> NoCol,
      type |-> "duplicate", status |-> PassFail(cnt > 0), count |-> cnt,
      params |-> Params(chk)]

\* max(1, len(df))
RowDenominator(df) == IF Len(df) < 1 THEN 1 ELSE Len(df)

\* Variant: the limits are exclusive.
NullRateBelow(count, df, chk) ==
  /\ (~chk.max_nulls.has \/ count < chk.max_nulls.v)
  /\ (~chk.max_null_frac.has
        \/ count * chk.max_null_frac.v[2] < chk.max_null_frac.v[1] * RowDenominator(df))

\* A fraction is <<numerator, denominator>>; count / rows <= frac.
NullRateOk(count, df, chk) ==
  /\ (~chk.max_nulls.has \/ count <= chk.max_nulls.v)
  /\ (~chk.max_null_frac.has
        \/ count * chk.max_null_frac.v[2] <= chk.max_null_frac.v[1] * RowDenominator(df))

\* One column-level check on a present column: <<count, is-fail>>.
ColOutcome(cname, chk, df) ==
  CASE chk.type = "range" ->
         LET n == Cardinality(MaskRange(df, cname, chk.min, chk.max)) IN <<n, n > 0>>
    [] chk.type = "enum" ->
         LET n == Cardinality(MaskEnum(df, cname, Params(chk).allowed.v)) IN <<n, n > 0>>
    [] chk.type = "null_rate" ->
         LET n == Cardinality(MaskNull(df, cname)) IN <<n, ~NullRateOk(n, df, chk)>>
    [] chk.type = "freshness" ->
         LET n == Cardinality(MaskFreshness(df, cname, chk.max_age_days))
         IN <<n, chk.max_age_days.has /\ n > 0>>
    [] OTHER -> <<0, FALSE>>

ColResult(tname, cname, chk, df) ==
  LET o == ColOutcome(cname, chk, df)
  IN [name |-> <<tname, cname, chk.type>>, table |-> tname, column |-> cname,
      type |-> chk.type, status |-> PassFail(o[2]), count |-> o[1],
      params |-> Params(chk)]

\* The Check Results of one Table Rule: its duplicate checks, then the checks
\* of every Column Rule whose column is in the dataset.
TableResults(t, df) ==
  LET dups == SelectSeq(t.checks, LAMBDA chk : chk.type = "duplicate")
  IN [i \in DOMAIN dups |-> DupResult(t.name, dups[i], df)]
     \o Flatten([j \in DOMAIN t.columns |->
          IF t.columns[j].name \in ColNames
          THEN [i \in DOMAIN t.columns[j].checks |->
                  ColResult(t.name, t.columns[j].name, t.columns[j].checks[i], df)]
          ELSE <<>>])

EvalResults(rs, df) == Flatten([ti \in DOMAIN rs |-> TableResults(rs[ti], df)])

\* Evaluation dies on a range check without bounds on a present column.
EvalRaises(rs) ==
  \E ti \in DOMAIN rs : \E j \in DOMAIN rs[ti].columns :
    /\ rs[ti].columns[j].name \in ColNames
    /\ \E i \in DOMAIN rs[ti].columns[j].checks :
         LET chk == rs[ti].columns[j].checks[i]
         IN chk.type = "range" /\ RangeRaises(chk.min, chk.max)

CountStatus(cs, st) == Cardinality({i \in DOMAIN cs : cs[i].status = st})

\* ------------------------------------------------------------ failure samples
\* The mask the exporter recomputes for a failing Check Result; has = FALSE
\* when "mask is None".
SampleMask(c, df) ==
  CASE c.type = "duplicate" -> Some(MaskDuplicate(df, c.params.subset))
    [] c.type = "range" /\ c.column \in ColNames ->
         Some(MaskRange(df, c.column, c.params.min, c.params.max))
    [] c.type = "enum" /\ c.column \in ColNames ->
         Some(MaskEnum(df, c.column, c.params.allowed.v))
    [] c.type = "null_rate" /\ c.column \in ColNames -> Some(MaskNull(df, c.column))
    [] c.type = "freshness" /\ c.column \in ColNames ->
         Some(MaskFreshness(df, c.column, c.params.max_age_days))
    [] OTHER -> [has |-> FALSE, v |-> {}]

\* The file written for one failing check.
SampleRows(c, df) == Cells(HeadN(Loc(df, SampleMask(c, df).v), SampleLimit))

\* The failures directory after the checks cs[1..n] were walked: a later
\* check of the same name overwrites the file of an earlier one.
\* name.replace(".", "_") + ".csv"
SampleFileName(name) == name \o <<"csv">>

RECURSIVE SampleFiles(_, _, _)
SampleFiles(cs, n, df) ==
  IF n = 0 THEN << >>
  ELSE LET prev == SampleFiles(cs, n - 1, df)
           c == cs[n]
       IN IF c.status = "fail" /\ SampleMask(c, df).has
          THEN [f \in (DOMAIN prev) \cup {SampleFileName(c.name)} |->
                  IF f = SampleFileName(c.name) THEN SampleRows(c, df) ELSE prev[f]]
          ELSE prev

\* The failure_samples mapping after the same walk.
FailureSamples(cs, df) ==
  [nm \in {cs[i].name : i \in {j \in DOMAIN cs :
                                 cs[j].status = "fail" /\ SampleMask(cs[j], df).has}}
     |-> SampleFileName(nm)]

\* ------------------------------------------------------------ fix steps
\* A fix step takes the frame [df, dtype] and returns
\* [df, dtype, affected, add, qname, qrows]: the new frame, the count, whether
\* report.add is called, and the quarantine file written (qname = <<>>: none).
\* dtype[col] is "obj" for an object column and "num" for a numeric one.

NoStep(df, dtype) ==
  [df |-> df, dtype |-> dtype, affected |-> 0, qname |-> <<>>, qrows |-> <<>>]

\* trim_strings over all columns of the frame
TrimCell(c, isObj) == IF isObj THEN Strip(AsTypeStr(c)) ELSE c

TrimChanged(c, isObj) == isObj /\ AsTypeStr(c) # Strip(AsTypeStr(c))

trim_strings(df, dtype) ==
  [df |-> [i \in DOMAIN df |->
             [df[i] EXCEPT !.c = [col \in ColNames |->
                                    TrimCell(df[i].c[col], dtype[col] = "obj")]]],
   dtype |-> dtype,
   affected |-> Cardinality({<<i, col>> \in (DOMAIN df) \X ColNames :
                               TrimChanged(df[i].c[col], dtype[col] = "obj")}),
   qname |-> <<>>, qrows |-> <<>>]

\* Variant: the count is taken with keep=False, every row of a duplicate group.
drop_counting_groups(df, dtype, subset, tname) ==
  LET dup_mask == MaskDuplicate(df, subset)
      group_mask == {i \in DOMAIN df : \E j \in (DOMAIN df) \ {i} :
                       SameOn(df[j], df[i], SubsetCols(subset))}
  IN IF dup_mask = {} THEN NoStep(df, dtype)
     ELSE [df |-> Loc(df, (DOMAIN df) \ dup_mask), dtype |-> dtype,
           affected |-> Cardinality(group_mask),
           qname |-> <<tname, "duplicate_rows">>, qrows |-> Cells(Loc(df, dup_mask))]

\* drop_exact_duplicates
drop_exact_duplicates(df, dtype, subset, tname) ==
  LET dup_mask == MaskDuplicate(df, subset)
  IN IF dup_mask = {} THEN NoStep(df, dtype)
     ELSE [df |-> Loc(df, (DOMAIN df) \ dup_mask), dtype |-> dtype,
           affected |-> Cardinality(dup_mask),
           qname |-> <<tname, "duplicate_rows">>, qrows |-> Cells(Loc(df, dup_mask))]

\* Series.clip(lower, upper) on one number; pandas orders the two bounds.
ClipValue(v, lo, hi) ==
  LET lower == IF lo.has /\ hi.has /\ hi.v < lo.v THEN hi ELSE lo
      upper == IF lo.has /\ hi.has /\ hi.v < lo.v THEN lo ELSE hi
  IN IF lower.has /\ v < lower.v THEN lower.v
     ELSE IF upper.has /\ v > upper.v THEN upper.v
     ELSE v

\* The cell of the clipped series: the coerced, clamped number, NaN where
\* coercion failed.
ClippedCell(c, lo, hi) ==
  IF ToNumeric(c).has THEN Num(ClipValue(ToNumeric(c).v, lo, hi)) ELSE NaN

\* Variant: the clipped series is quarantined and counted, not assigned back.
clip_range_report_only(df, dtype, column, lo, hi, tname) ==
  IF column \notin ColNames THEN NoStep(df, dtype)
  ELSE LET changed_mask == {i \in DOMAIN df :
                              /\ ToNumeric(df[i].c[column]).has
                              /\ ClipValue(ToNumeric(df[i].c[column]).v, lo, hi)
                                   # ToNumeric(df[i].c[column]).v}
       IN IF changed_mask = {} THEN NoStep(df, dtype)
          ELSE [df |-> df, dtype |-> dtype,
                affected |-> Cardinality(changed_mask),
                qname |-> <<tname, column, "range_clipped">>,
                qrows |-> [k \in 1..Cardinality(changed_mask) |->
                             LET c == df[Ascending(changed_mask)[k]].c[column]
                             IN <<Num(ToNumeric(c).v), ClippedCell(c, lo, hi)>>]]

\* clip_range
clip_range(df, dtype, column, lo, hi, tname) ==
  IF column \notin ColNames THEN NoStep(df, dtype)
  ELSE LET changed_mask == {i \in DOMAIN df :
                              /\ ToNumeric(df[i].c[column]).has
                              /\ ClipValue(ToNumeric(df[i].c[column]).v, lo, hi)
                                   # ToNumeric(df[i].c[column]).v}
       IN IF changed_mask = {} THEN NoStep(df, dtype)
          ELSE [df |-> [i \in DOMAIN df |->
                          [df[i] EXCEPT !.c[column] = ClippedCell(@, lo, hi)]],
                dtype |-> [dtype EXCEPT ![column] = "num"],
                affected |-> Cardinality(changed_mask),
                qname |-> <<tname, column, "range_clipped">>,
                qrows |-> [k \in 1..Cardinality(changed_mask) |->
                             LET c == df[Ascending(changed_mask)[k]].c[column]
                             IN <<Num(ToNumeric(c).v), ClippedCell(c, lo, hi)>>]]

\* enforce_enum: quarantines, never repairs
enforce_enum(df, dtype, column, allowed, tname) ==
  IF column \notin ColNames THEN NoStep(df, dtype)
  ELSE LET mask_invalid == MaskEnum(df, column, allowed)
       IN IF mask_invalid = {} THEN NoStep(df, dtype)
          ELSE [df |-> df, dtype |-> dtype,
                affected |-> Cardinality(mask_invalid),
                qname |-> <<tname, column, "enum_invalid">>,
                qrows |-> [k \in 1..Cardinality(mask_invalid) |->
                             df[Ascending(mask_invalid)[k]].c[column]]]

\* The dtype of a column after cells of it were set to the value v.
DtypeAfterSet(old, v) ==
  IF old = "num" /\ v.k \notin {"num", "nan"} THEN "obj" ELSE old

\* fill_nulls
fill_nulls(df, dtype, column, fill_value) ==
  IF column \notin ColNames THEN NoStep(df, dtype)
  ELSE LET mask == MaskNull(df, column)
       IN IF mask = {} THEN NoStep(df, dtype)
          ELSE [df |-> [i \in DOMAIN df |->
                          IF i \in mask THEN [df[i] EXCEPT !.c[column] = fill_value]
                          ELSE df[i]],
                dtype |-> [dtype EXCEPT ![column] = DtypeAfterSet(@, fill_value)],
                affected |-> Cardinality(mask),
                qname |-> <<>>, qrows |-> <<>>]

\* parse_dates: quarantines what does not parse, overwrites what does
parse_dates(df, dtype, column, tname) ==
  IF column \notin ColNames THEN NoStep(df, dtype)
  ELSE LET mask_bad == {i \in DOMAIN df :
                          ~ToDatetime(df[i].c[column]).has /\ ~IsNa(df[i].c[column])}
           mask_ok == {i \in DOMAIN df : ToDatetime(df[i].c[column]).has}
       IN [df |-> [i \in DOMAIN df |->
                     IF i \in mask_ok
                     THEN [df[i] EXCEPT !.c[column] = Ts(ToDatetime(@).v)]
                     ELSE df[i]],
           dtype |-> IF mask_ok = {} THEN dtype
                     ELSE [dtype EXCEPT ![column] = "obj"],
           affected |-> Cardinality(mask_bad),
           qname |-> IF mask_bad = {} THEN <<>>
                     ELSE <<tname, column, "unparsed_dates">>,
           qrows |-> [k \in 1..Cardinality(mask_bad) |->
                        df[Ascending(mask_bad)[k]].c[column]]]

\* ------------------------------------------------------------ fix plan
\* The fixer calls main makes for a rule document, in call order: per table
\* trim_strings, then one drop per duplicate check, then per column and per
\* check of the column, in document order, the fixer of the check's kind.
FixOp(op, tname, cname, chk) == [op |-> op, table |-> tname, column |-> cname, chk |-> chk]

ColumnOps(tname, col) ==
  LET calls == SelectSeq(col.checks, LAMBDA chk :
                 \/ chk.type \in {"range", "freshness"}
                 \/ chk.type = "enum" /\ chk.allowed.has
                 \/ chk.type = "null_rate" /\ chk.fill_value.has)
  IN [i \in DOMAIN calls |->
        FixOp(CASE calls[i].type = "range" -> "clip"
                [] calls[i].type = "enum" -> "enum"
                [] calls[i].type = "null_rate" -> "fill"
                [] OTHER -> "dates",
              tname, col.name, calls[i])]

TableOps(t) ==
  LET dups == SelectSeq(t.checks, LAMBDA chk : chk.type = "duplicate")
  IN <<FixOp("trim", t.name, NoCol, BaseChk)>>
     \o [i \in DOMAIN dups |-> FixOp("dup", t.name, NoCol, dups[i])]
     \o Flatten([j \in DOMAIN t.columns |-> ColumnOps(t.name, t.columns[j])])

\* Variant: the column steps of a table grouped by kind, all clips first,
\* then enums, fills and date parses.
FixPlanByStep(rs) ==
  Flatten([ti \in DOMAIN rs |->
    LET ops == TableOps(rs[ti])
    IN SelectSeq(ops, LAMBDA o : o.op \in {"trim", "dup"})
       \o SelectSeq(ops, LAMBDA o : o.op = "clip")
       \o SelectSeq(ops, LAMBDA o : o.op = "enum")
       \o SelectSeq(ops, LAMBDA o : o.op = "fill")
       \o SelectSeq(ops, LAMBDA o : o.op = "dates")])

FixPlan(rs) == Flatten([ti \in DOMAIN rs |-> TableOps(rs[ti])])

\* ------------------------------------------------------------ CSV
\* DataFrame.to_csv of one cell: a NaN is the empty field, a number and a
\* Timestamp are written as text.
ToCsvCell(c) ==
  CASE c.k = "num" -> NumStr(c.n)
    [] c.k = "ts" -> DateStr(c.n)
    [] OTHER -> c

ToCsv(df) == [i \in DOMAIN df |-> [col \in ColNames |-> ToCsvCell(df[i].c[col])]]

\* read_csv takes the empty field and the text "nan" as missing; a field of
\* whitespace only is text.
CsvMissing(x) == x.k \in {"nan", "nanstr"} \/ (x.k = "blank" /\ ~x.pad)

\* read_csv's dtype of a column: numeric when every field is a number or
\* missing and there is a row, object otherwise.
CsvDtype(csv, col) ==
  IF csv # <<>> /\ \A i \in DOMAIN csv : CsvMissing(csv[i][col]) \/ csv[i][col].k = "numstr"
  THEN "num" ELSE "obj"

ReadCsvCell(x, dt) ==
  IF CsvMissing(x) THEN NaN
  ELSE IF x.k = "numstr" /\ dt = "num" THEN Num(x.n)
  ELSE x

\* pd.read_csv: rows indexed 0..n-1
ReadCsv(csv) ==
  [i \in DOMAIN csv |->
     [idx |-> i - 1,
      c |-> [col \in ColNames |-> ReadCsvCell(csv[i][col], CsvDtype(csv, col))]]]

ReadCsvDtypes(csv) == [col \in ColNames |-> CsvDtype(csv, col)]

\* ------------------------------------------------------------ state
VARIABLES
  rules,            \* the rule document: sequence of Table Rules
  args,             \* the parsed command line
  df,               \* the dataset: sequence of rows [idx, c]
  dtype,            \* dtype of each column
  pc,               \* the stage main is at
  checks,           \* Check Results
  passed,
  failed,
  failure_samples,  \* check name -> sample file name
  sample_files,     \* failures/: file name -> rows written
  report,           \* the FixReport
  fixi,             \* position in the fix plan
  quarantine,       \* quarantine/: file name -> rows written
  fix_report_json,  \* <<>> while not written, else <<content>>
  cleaned_csv,      \* <<>> while not written, else <<content>>
  results_json,     \* <<>> while not written, else <<content>>
  viz,              \* <<>> when None, else <<[cols, grid]>>
  run,              \* 1 for the first run, 2 for a run over its cleaned.csv
  first_report      \* the FixReport of the run that wrote the cleaned.csv being read

vars == <<rules, args, df, dtype, pc, checks, passed, failed, failure_samples,
          sample_files, report, fixi, quarantine, fix_report_json, cleaned_csv,
          results_json, viz, run, first_report>>

\* FixReport(): no actions, both row counts None
EmptyReport == [actions |-> <<>>, total_rows_before |-> None, total_rows_after |-> None]

\* The state of a process that has parsed its arguments and loaded the rule
\* document and the dataset, with an empty output directory.
Start(rs, a, csv, r) ==
  /\ rules = rs
  /\ args = a
  /\ df = ReadCsv(csv)
  /\ dtype = ReadCsvDtypes(csv)
  /\ pc = "evaluate"
  /\ checks = <<>>
  /\ passed = 0
  /\ failed = 0
  /\ failure_samples = <<>>
  /\ sample_files = <<>>
  /\ report = EmptyReport
  /\ fixi = 0
  /\ quarantine = <<>>
  /\ fix_report_json = <<>>
  /\ cleaned_csv = <<>>
  /\ results_json = <<>>
  /\ viz = <<>>
  /\ run = r
  /\ first_report = EmptyReport

\* ------------------------------------------------------------ actions
\* The evaluation loop: all Check Results, or the end of the process.
Evaluate ==
  /\ pc = "evaluate"
  /\ IF EvalRaises(rules)
     THEN /\ pc' = "crashed"
          /\ UNCHANGED <<checks, passed, failed>>
     ELSE /\ checks' = EvalResults(rules, df)
          /\ passed' = CountStatus(EvalResults(rules, df), "pass")
          /\ failed' = CountStatus(EvalResults(rules, df), "fail")
          /\ pc' = "samples"
  /\ UNCHANGED <<rules, args, first_report, df, dtype, failure_samples, sample_files, report, fixi,
                 quarantine, fix_report_json, cleaned_csv, results_json, viz, run>>

\* Per-rule failure samples.
ExportSamples ==
  /\ pc = "samples"
  /\ sample_files' = SampleFiles(checks, Len(checks), df)
  /\ failure_samples' = FailureSamples(checks, df)
  /\ pc' = IF args.fix \/ args.fix_dry_run THEN "fix_begin" ELSE "viz"
  /\ UNCHANGED <<rules, args, first_report, df, dtype, checks, passed, failed, report, fixi,
                 quarantine, fix_report_json, cleaned_csv, results_json, viz, run>>

BeginFix ==
  /\ pc = "fix_begin"
  /\ report' = [EmptyReport EXCEPT !.total_rows_before = Some(Len(df))]
  /\ fixi' = 1
  /\ pc' = "fix"
  /\ UNCHANGED <<rules, args, first_report, df, dtype, checks, passed, failed, failure_samples,
                 sample_files, quarantine, fix_report_json, cleaned_csv, results_json,
                 viz, run>>

\* FixReport.add
ReportAdd(rep, rule, tname, cname, action, affected, notes) ==
  [rep EXCEPT !.actions = Append(@, [rule |-> rule, table |-> tname, column |-> cname,
                                      action |-> action, affected |-> affected,
                                      notes |-> notes])]

\* The effect of one fixer call r on the process state.
Applied(r, rule, tname, cname, action, notes) ==
  /\ df' = r.df
  /\ dtype' = r.dtype
  /\ report' = IF r.affected > 0
               THEN ReportAdd(report, rule, tname, cname, action, r.affected, notes)
               ELSE report
  /\ quarantine' = IF r.qname = <<>> THEN quarantine
                   ELSE [f \in (DOMAIN quarantine) \cup {r.qname} |->
                           IF f = r.qname THEN r.qrows ELSE quarantine[f]]
  /\ fixi' = fixi + 1
  /\ UNCHANGED <<rules, args, first_report, pc, checks, passed, failed, failure_samples, sample_files,
                 fix_report_json, cleaned_csv, results_json, viz, run>>

AtOp(op) == pc = "fix" /\ fixi <= Len(FixPlan(rules)) /\ FixPlan(rules)[fixi].op = op

CurOp == FixPlan(rules)[fixi]

TrimStrings ==
  /\ AtOp("trim")
  /\ Applied(trim_strings(df, dtype), <<CurOp.table, "trim">>, CurOp.table, NoCol,
             "trim_strings", BaseChk)

DropExactDuplicates ==
  /\ AtOp("dup")
  /\ Applied(drop_exact_duplicates(df, dtype, CurOp.chk.subset, CurOp.table),
             <<CurOp.table, "duplicate">>, CurOp.table, NoCol, "drop_duplicates",
             DupChk(Some(IF CurOp.chk.subset.has /\ CurOp.chk.subset.v # <<>>
                         THEN CurOp.chk.subset.v ELSE ColOrder)))

ClipRange ==
  /\ AtOp("clip")
  /\ Applied(clip_range(df, dtype, CurOp.column, CurOp.chk.min, CurOp.chk.max, CurOp.table),
             <<CurOp.table, CurOp.column, "range">>, CurOp.table, CurOp.column, "clip",
             RangeChk(CurOp.chk.min, CurOp.chk.max))

EnforceEnum ==
  /\ AtOp("enum")
  /\ Applied(enforce_enum(df, dtype, CurOp.column, CurOp.chk.allowed.v, CurOp.table),
             <<CurOp.table, CurOp.column, "enum">>, CurOp.table, CurOp.column,
             "quarantine_invalid_enum", EnumChk(CurOp.chk.allowed))

FillNulls ==
  /\ AtOp("fill")
  /\ Applied(fill_nulls(df, dtype, CurOp.column, CurOp.chk.fill_value.v),
             <<CurOp.table, CurOp.column, "null_fill">>, CurOp.table, CurOp.column,
             "fillna", NullChk(None, NoFrac, CurOp.chk.fill_value))

ParseDates ==
  /\ AtOp("dates")
  /\ Applied(parse_dates(df, dtype, CurOp.column, CurOp.table),
             <<CurOp.table, CurOp.column, "date_parse">>, CurOp.table, CurOp.column,
             "quarantine_unparsed_dates", FreshChk(None))

\* After the last table: total_rows_after
EndFix ==
  /\ pc = "fix"
  /\ fixi > Len(FixPlan(rules))
  /\ report' = [report EXCEPT !.total_rows_after = Some(Len(df))]
  /\ pc' = "guard_row"
  /\ UNCHANGED <<rules, args, first_report, df, dtype, checks, passed, failed, failure_samples,
                 sample_files, fixi, quarantine, fix_report_json, cleaned_csv,
                 results_json, viz, run>>

\* ------------------------------------------------------------ guardrails
RowsBefore == report.total_rows_before.v
RowsAfter == report.total_rows_after.v

\* Variant: a percentage equal to the threshold aborts.
RowImpactAtLeast(before, after, max_impact_pct) ==
  100 * (before - after) >= max_impact_pct * before

\* impact_pct > max_impact_pct, with impact_pct = 100 * delta / before
RowImpactExceeded(before, after, max_impact_pct) ==
  100 * (before - after) > max_impact_pct * before

\* sum of "affected" over the actions that are not drop_duplicates
CellChanges(actions) ==
  SumSeq([i \in DOMAIN actions |->
            IF actions[i].action # "drop_duplicates" THEN actions[i].affected ELSE 0])

\* total_cells = total_rows_before * len(df.columns)
TotalCells(before) == before * Cardinality(ColNames)

\* cell_pct > max_cell_changes_pct, with cell_pct = 100 * cell_changes / total_cells
CellChangesExceeded(cell_changes, total_cells, max_cell_changes_pct) ==
  total_cells # 0 /\ 100 * cell_changes > max_cell_changes_pct * total_cells

\* Variant: the report is dumped before the cell-change guardrail.
ReportFirstTail == <<"guard_row", "fix_report", "guard_cell", "cleaned", "viz">>

\* The statements of main after the fix loop, in program order.
FixTail == <<"guard_row", "guard_cell", "fix_report", "cleaned", "viz">>

\* The stage that follows stage st when st does not end the process.
StageAfter(st) == FixTail[(CHOOSE i \in DOMAIN FixTail : FixTail[i] = st) + 1]

\* if report.total_rows_before and report.total_rows_before > 0
GuardrailsApply(rep) == rep.total_rows_before.has /\ rep.total_rows_before.v > 0

RowGuardrail ==
  /\ pc = "guard_row"
  /\ pc' = IF GuardrailsApply(report)
           THEN IF RowImpactExceeded(RowsBefore, RowsAfter, args.max_impact_pct)
                THEN "aborted_row" ELSE StageAfter("guard_row")
           ELSE "cleaned"
  /\ UNCHANGED <<rules, args, first_report, df, dtype, checks, passed, failed, failure_samples,
                 sample_files, report, fixi, quarantine, fix_report_json, cleaned_csv,
                 results_json, viz, run>>

CellGuardrail ==
  /\ pc = "guard_cell"
  /\ pc' = IF CellChangesExceeded(CellChanges(report.actions), TotalCells(RowsBefore),
                                  args.max_cell_changes_pct)
           THEN "aborted_cell" ELSE StageAfter("guard_cell")
  /\ UNCHANGED <<rules, args, first_report, df, dtype, checks, passed, failed, failure_samples,
                 sample_files, report, fixi, quarantine, fix_report_json, cleaned_csv,
                 results_json, viz, run>>

\* json.dump(rep, fix_report.json)
WriteFixReport ==
  /\ pc = "fix_report"
  /\ fix_report_json' = <<report>>
  /\ pc' = StageAfter("fix_report")
  /\ UNCHANGED <<rules, args, first_report, df, dtype, checks, passed, failed, failure_samples,
                 sample_files, report, fixi, quarantine, cleaned_csv, results_json,
                 viz, run>>

\* Variant: --fix alone decides, --fix-dry-run is not consulted.
WritesCleanedOnFix(a) == a.fix

\* if args.fix and not args.fix_dry_run
WritesCleaned(a) == a.fix /\ ~a.fix_dry_run

\* df.to_csv(cleaned.csv)
WriteCleaned ==
  /\ pc = "cleaned"
  /\ cleaned_csv' = IF WritesCleaned(args) THEN <<ToCsv(df)>> ELSE cleaned_csv
  /\ pc' = "viz"
  /\ UNCHANGED <<rules, args, first_report, df, dtype, checks, passed, failed, failure_samples,
                 sample_files, report, fixi, quarantine, fix_report_json, results_json,
                 viz, run>>

\* ------------------------------------------------------------ viz
\* Columns of the failing null_rate checks, one entry per check.
FailingNullCols(cs) ==
  LET sel == SelectSeq(cs, LAMBDA c :
               c.type = "null_rate" /\ c.status = "fail" /\ c.column # NoCol)
  IN [i \in DOMAIN sel |-> sel[i].column]

NullCount(rows, col) == Cardinality({i \in DOMAIN rows : IsNa(rows[i].c[col])})

\* The orders sort_values(ascending=False) may give the columns of positive
\* missing fraction: descending fraction, ties in either order.
FallbackOrders(rows) ==
  LET pos == {col \in ColNames : NullCount(rows, col) > 0}
  IN {o \in UNION {[1..n -> pos] : n \in {Cardinality(pos)}} :
        /\ \A i, j \in DOMAIN o : i # j => o[i] # o[j]
        /\ \A i, j \in DOMAIN o : i < j => NullCount(rows, o[i]) >= NullCount(rows, o[j])}

HeatmapGrid(rows, cols) ==
  [i \in DOMAIN rows |-> [j \in DOMAIN cols |-> IF IsNa(rows[i].c[cols[j]]) THEN 1 ELSE 0]]

BuildViz ==
  /\ pc = "viz"
  /\ IF args.viz
     THEN \E fallback \in FallbackOrders(HeadN(df, HeatmapScanRows)) :
            LET cand == IF FailingNullCols(checks) # <<>>
                        THEN FailingNullCols(checks) ELSE fallback
                null_cols == HeadN(SelectSeq(cand, LAMBDA c : c \in ColNames),
                                   HeatmapMaxCols)
            IN viz' = <<[cols |-> null_cols,
                         grid |-> HeatmapGrid(HeadN(df, HeatmapRows), null_cols)]>>
     ELSE viz' = viz
  /\ pc' = "results"
  /\ UNCHANGED <<rules, args, first_report, df, dtype, checks, passed, failed, failure_samples,
                 sample_files, report, fixi, quarantine, fix_report_json, cleaned_csv,
                 results_json, run>>

\* ------------------------------------------------------------ results.json
WriteResults ==
  /\ pc = "results"
  /\ results_json' = <<[passed |-> passed, failed |-> failed, checks |-> checks,
                        failure_samples |-> failure_samples, viz |-> viz]>>
  /\ pc' = "done"
  /\ UNCHANGED <<rules, args, first_report, df, dtype, checks, passed, failed, failure_samples,
                 sample_files, report, fixi, quarantine, fix_report_json, cleaned_csv,
                 viz, run>>

\* A second run of the tool, with the same rule document and options, over
\* the cleaned.csv of the first, into a fresh output directory.
Rerun ==
  /\ pc = "done"
  /\ run < MaxRuns
  /\ cleaned_csv # <<>>
  /\ df' = ReadCsv(cleaned_csv[1])
  /\ dtype' = ReadCsvDtypes(cleaned_csv[1])
  /\ pc' = "evaluate"
  /\ checks' = <<>>
  /\ passed' = 0
  /\ failed' = 0
  /\ failure_samples' = <<>>
  /\ sample_files' = <<>>
  /\ report' = EmptyReport
  /\ fixi' = 0
  /\ quarantine' = <<>>
  /\ fix_report_json' = <<>>
  /\ cleaned_csv' = <<>>
  /\ results_json' = <<>>
  /\ viz' = <<>>
  /\ run' = run + 1
  /\ first_report' = report
  /\ UNCHANGED <<rules, args>>

Next ==
  \/ Evaluate
  \/ ExportSamples
  \/ BeginFix
  \/ TrimStrings
  \/ DropExactDuplicates
  \/ ClipRange
  \/ EnforceEnum
  \/ FillNulls
  \/ ParseDates
  \/ EndFix
  \/ RowGuardrail
  \/ CellGuardrail
  \/ WriteFixReport
  \/ WriteCleaned
  \/ BuildViz
  \/ WriteResults
  \/ Rerun

\* ------------------------------------------------------------ inputs
\* Fields of the source CSV: column a carries the values under test, column
\* b a second key, missing in one kind of row.
AFields == {NaN, NumStr(0), NumStr(3), Word(1), Padded(1), DateStr(9), Blank}

CsvRow(x, y) == [col \in ColNames |-> IF col = "a" THEN x ELSE y]

CsvRows == {CsvRow(x, NumStr(1)) : x \in AFields} \cup {CsvRow(Word(1), NaN)}

Csvs == UNION {[1..n -> CsvRows] : n \in 0..MaxRows}

Table(name, tchecks, columns) == [name |-> name, checks |-> tchecks, columns |-> columns]
Column(name, cchecks) == [name |-> name, checks |-> cchecks]

TableCheckSeqs ==
  {<<>>, <<DupChk(NoSeq)>>, <<DupChk(Some(<<"a">>))>>, <<DupChk(Some(<<>>))>>,
   <<OtherChk>>, <<DupChk(Some(<<"a">>)), DupChk(NoSeq)>>}

ColumnChecks ==
  {RangeChk(Some(1), Some(2)), RangeChk(None, Some(2)), RangeChk(Some(1), None),
   RangeChk(None, None),
   EnumChk(Some(<<Word(1)>>)), EnumChk(NoSeq), EnumChk(Some(<<NaN, Word(1)>>)),
   NullChk(Some(0), NoFrac, NoCell), NullChk(None, Some(<<1, 2>>), Some(Word(1))),
   NullChk(None, NoFrac, Some(Num(2))),
   FreshChk(None), FreshChk(Some(1)), FreshChk(Some(9)),
   OtherChk}

\* The checks that have a fix step, for documents with several checks.
FixingChecks ==
  {RangeChk(Some(1), Some(2)), RangeChk(None, Some(2)), EnumChk(Some(<<Word(1)>>)),
   NullChk(Some(0), NoFrac, Some(Num(0))), FreshChk(None)}

RuleDocs ==
  \* table-level checks only
  {<<Table("t", tc, <<>>)>> : tc \in TableCheckSeqs}
  \* one column rule with one check, on a present or an absent column
  \cup {<<Table("t", <<>>, <<Column("a", <<k>>)>>)>> : k \in ColumnChecks}
  \cup {<<Table("t", <<>>, <<Column("zz", <<k>>)>>)>> :
          k \in {RangeChk(Some(1), Some(2)), RangeChk(None, None), OtherChk}}
  \* one column rule with two checks
  \cup {<<Table("t", <<>>, <<Column("a", <<k1, k2>>)>>)>> : k1, k2 \in FixingChecks}
  \* a duplicate check and a column check
  \cup {<<Table("t", <<DupChk(Some(<<"a">>))>>, <<Column("a", <<k>>)>>)>> :
          k \in FixingChecks}
  \* two column rules
  \cup {<<Table("t", <<>>, <<Column(cs[1], <<k1>>), Column(cs[2], <<k2>>)>>)>> :
          cs \in {<<"a", "b">>, <<"b", "a">>, <<"a", "a">>},
          k1, k2 \in {RangeChk(Some(1), Some(2)), NullChk(Some(0), NoFrac, Some(Num(2)))}}
  \* table-level and column-level checks, absent and present columns
  \cup {<<Table("t", <<OtherChk, DupChk(NoSeq)>>,
                <<Column("zz", <<k>>), Column("a", <<OtherChk, k>>)>>)>> :
          k \in {EnumChk(Some(<<Word(1)>>)), NullChk(Some(0), NoFrac, NoCell)}}
  \* two tables
  \cup {<<Table("t", tc, <<Column("a", <<k1>>)>>), Table("u", tc, <<Column("a", <<k2>>)>>)>> :
          tc \in {<<>>, <<DupChk(NoSeq)>>},
          k1, k2 \in {RangeChk(None, Some(2)), NullChk(Some(0), NoFrac, Some(Num(2)))}}

\* Documents whose fix pass drops rows, changes cells, or both.
GuardDocs ==
  {<<Table("t", tc, <<Column("a", <<k>>)>>)>> :
     tc \in {<<>>, <<DupChk(Some(<<"a">>))>>}, k \in FixingChecks}
  \cup {<<Table("t", tc, <<>>)>> : tc \in {<<>>, <<DupChk(NoSeq)>>}}

Args(fix, dry, vz, impact, cell) ==
  [fix |-> fix, fix_dry_run |-> dry, viz |-> vz, max_impact_pct |-> impact,
   max_cell_changes_pct |-> cell]

DefaultImpactPct == 2
DefaultCellPct == 5
HalfPct == 50
LenientPct == 200

\* Threshold pairs <<max_impact_pct, max_cell_changes_pct>>
Thresholds == {<<DefaultImpactPct, HalfPct>>, <<HalfPct, LenientPct>>}

ArgSets ==
  {Args(FALSE, FALSE, vz, DefaultImpactPct, DefaultCellPct) : vz \in BOOLEAN}
  \cup {Args(fm[1], fm[2], TRUE, th[1], th[2]) :
          fm \in {<<TRUE, FALSE>>, <<FALSE, TRUE>>, <<TRUE, TRUE>>}, th \in Thresholds}

\* Every document runs without fixes and with lenient fixes; the documents
\* that exercise the guardrails run under every option set.
Init ==
  \/ \E rs \in RuleDocs, csv \in Csvs,
        a \in {Args(FALSE, FALSE, FALSE, DefaultImpactPct, DefaultCellPct),
               Args(TRUE, FALSE, TRUE, HalfPct, LenientPct)} :
       Start(rs, a, csv, 1)
  \/ \E rs \in GuardDocs, csv \in Csvs, a \in ArgSets : Start(rs, a, csv, 1)

Spec == Init /\ [][Next]_vars

\* ------------------------------------------------------------ properties
AbortedRow == pc = "aborted_row"
AbortedCell == pc = "aborted_cell"
Aborted == AbortedRow \/ AbortedCell

\* The fix pass is over and both guardrails are behind.
PastGuardrails == report.total_rows_after.has /\ pc \notin {"guard_row", "guard_cell"}

\* C1: a run that aborts on a guardrail has written neither cleaned.csv nor
\* results.json; a run that reaches its end has written results.json, and
\* cleaned.csv exactly when --fix is set and --fix-dry-run is not.
C1_Artifacts ==
  /\ Aborted => cleaned_csv = <<>> /\ results_json = <<>>
  /\ pc = "done" => /\ results_json # <<>>
                    /\ (cleaned_csv # <<>>) <=> (args.fix /\ ~args.fix_dry_run)

\* C1 witness: a finished run with both flags given, whose fix pass recorded
\* actions, wrote results.json and no cleaned.csv.
C1_Witness ==
  /\ pc = "done" /\ args.fix /\ args.fix_dry_run
  /\ report.actions # <<>> /\ results_json # <<>> /\ cleaned_csv = <<>>

\* 100 * num / den > m for whole numbers, by quotient and remainder.
PctAbove(num, den, m) ==
  \/ (100 * num) \div den > m
  \/ (100 * num) \div den = m /\ (100 * num) % den # 0

\* Sum of affected over the actions a[1..n] that are not row drops.
RECURSIVE NonDropAffected(_, _)
NonDropAffected(a, n) ==
  IF n = 0 THEN 0
  ELSE NonDropAffected(a, n - 1)
       + (IF a[n].action = "drop_duplicates" THEN 0 ELSE a[n].affected)

\* C2: once the guardrails are decided, the pass was aborted on the row
\* guardrail exactly when total_rows_before > 0 and the row percentage is
\* strictly above max_impact_pct, and on the cell guardrail exactly when that
\* is not so, total_rows_before > 0, total_cells > 0 and the cell percentage
\* is strictly above max_cell_changes_pct.
C2_GuardrailCondition ==
  PastGuardrails =>
    LET before == report.total_rows_before.v
        after == report.total_rows_after.v
        total_cells == before * Cardinality(ColNames)
        rowsOver == before > 0 /\ PctAbove(before - after, before, args.max_impact_pct)
        cellsOver == /\ before > 0 /\ ~rowsOver /\ total_cells > 0
                     /\ PctAbove(NonDropAffected(report.actions, Len(report.actions)),
                                 total_cells, args.max_cell_changes_pct)
    IN /\ AbortedRow <=> rowsOver
       /\ AbortedCell <=> cellsOver

\* C2 witness: rows were dropped, the row percentage equals the threshold,
\* and the pass went on past both guardrails.
C2_Witness ==
  /\ pc = "fix_report"
  /\ report.total_rows_before.v > report.total_rows_after.v
  /\ 100 * (report.total_rows_before.v - report.total_rows_after.v)
       = args.max_impact_pct * report.total_rows_before.v

RowIndex(d) == [i \in DOMAIN d |-> d[i].idx]

DropAffected(a) ==
  SumSeq([i \in DOMAIN a |-> IF a[i].action = "drop_duplicates" THEN a[i].affected ELSE 0])

\* C4, row counts: after the fix pass total_rows_after <= total_rows_before
\* and the difference is the sum of affected over the drop_duplicates actions.
C4_RowCount ==
  report.total_rows_after.has =>
    /\ report.total_rows_after.v <= report.total_rows_before.v
    /\ report.total_rows_before.v - report.total_rows_after.v = DropAffected(report.actions)

\* C4: the row-count statement above at every state, and every step of the
\* fix pass other than a drop of duplicates leaves the rows and their order
\* as they were.
C4_OnlyDropsChangeRows ==
  /\ []C4_RowCount
  /\ [][(pc = "fix" /\ ~AtOp("dup")) => RowIndex(df') = RowIndex(df)]_vars

\* C4 witness: a finished fix pass that dropped a row and also recorded an
\* action of another kind.
C4_Witness ==
  /\ report.total_rows_after.has
  /\ report.total_rows_after.v < report.total_rows_before.v
  /\ \E i \in DOMAIN report.actions : report.actions[i].action \in {"clip", "fillna"}

\* Rank of a Fix Action in the order trim, drop, clip, enum, fill, dates.
StepRank(action) ==
  CASE action = "trim_strings" -> 1
    [] action = "drop_duplicates" -> 2
    [] action = "clip" -> 3
    [] action = "quarantine_invalid_enum" -> 4
    [] action = "fillna" -> 5
    [] OTHER -> 6

\* C5 as stated: within a table no Fix Action is recorded after an action of
\* a later step of the order trim, drop, clip, enum, fill, dates.
C5_FixedStepOrder ==
  \A i, j \in DOMAIN report.actions :
    (i < j /\ report.actions[i].table = report.actions[j].table)
      => StepRank(report.actions[i].action) <= StepRank(report.actions[j].action)

\* The Fix Action a check of a kind records.
ActionOfKind(type) ==
  CASE type = "duplicate" -> "drop_duplicates"
    [] type = "range" -> "clip"
    [] type = "enum" -> "quarantine_invalid_enum"
    [] type = "null_rate" -> "fillna"
    [] type = "freshness" -> "quarantine_unparsed_dates"
    [] OTHER -> "none"

\* The rule document read top to bottom as <<table, column, action>> slots:
\* per table the trim, the table checks, then column by column every check.
DocSlots(rs) ==
  Flatten([ti \in DOMAIN rs |->
    <<<<rs[ti].name, NoCol, "trim_strings">>>>
    \o [k \in DOMAIN rs[ti].checks |->
          <<rs[ti].name, NoCol, ActionOfKind(rs[ti].checks[k].type)>>]
    \o Flatten([j \in DOMAIN rs[ti].columns |->
         [k \in DOMAIN rs[ti].columns[j].checks |->
            <<rs[ti].name, rs[ti].columns[j].name,
              ActionOfKind(rs[ti].columns[j].checks[k].type)>>]])])

RECURSIVE IsSubsequence(_, _)
IsSubsequence(s, t) ==
  IF s = <<>> THEN TRUE
  ELSE IF t = <<>> THEN FALSE
  ELSE IF Head(s) = Head(t) THEN IsSubsequence(Tail(s), Tail(t))
  ELSE IsSubsequence(s, Tail(t))

\* C5 amended: the Fix Actions are recorded in document order: per table
\* the trim, then the drops of its duplicate checks, then column rule by
\* column rule and check by check the step of each check's kind.
C5_DocumentOrder ==
  IsSubsequence([i \in DOMAIN report.actions |->
                   <<report.actions[i].table, report.actions[i].column,
                     report.actions[i].action>>],
                DocSlots(rules))

\* C5 witness: a fillna action recorded before a clip action of the same
\* table.
C5_Witness ==
  \E i, j \in DOMAIN report.actions :
    /\ i < j
    /\ report.actions[i].table = report.actions[j].table
    /\ report.actions[i].action = "fillna"
    /\ report.actions[j].action = "clip"

\* v clamped into [lo, hi], an absent bound not clamping.
Clamped(v, lo, hi) ==
  LET up == IF lo.has /\ v < lo.v THEN lo.v ELSE v
  IN IF hi.has /\ up > hi.v THEN hi.v ELSE up

\* C6: a clip step on a present column turns every cell that coerces to a
\* number into that number clamped to the bounds, leaves every cell that
\* does not coerce as it was, and records an action exactly when some cell
\* changed, with affected the number of changed cells.
C6_ClipLeavesOtherCells ==
  [][(AtOp("clip") /\ CurOp.column \in ColNames) =>
       LET col == CurOp.column
           lo == CurOp.chk.min
           hi == CurOp.chk.max
           n == Cardinality({i \in DOMAIN df :
                  /\ ToNumeric(df[i].c[col]).has
                  /\ Clamped(ToNumeric(df[i].c[col]).v, lo, hi) # ToNumeric(df[i].c[col]).v})
       IN /\ \A i \in DOMAIN df :
               IF ToNumeric(df[i].c[col]).has
               THEN /\ ToNumeric(df'[i].c[col]).has
                    /\ ToNumeric(df'[i].c[col]).v = Clamped(ToNumeric(df[i].c[col]).v, lo, hi)
               ELSE df'[i].c[col] = df[i].c[col]
          /\ IF n = 0 THEN report' = report
             ELSE /\ Len(report'.actions) = Len(report.actions) + 1
                  /\ report'.actions[Len(report'.actions)].action = "clip"
                  /\ report'.actions[Len(report'.actions)].affected = n]_vars

\* C6 restricted to columns whose every cell coerces or is missing; it
\* holds there, which places the failure on the cells that do not coerce.
C6_ClipOnNumericColumn ==
  [][(AtOp("clip") /\ CurOp.column \in ColNames
        /\ \A i \in DOMAIN df : ToNumeric(df[i].c[CurOp.column]).has
                                  \/ IsNa(df[i].c[CurOp.column])) =>
       \A i \in DOMAIN df :
         IF ToNumeric(df[i].c[CurOp.column]).has
         THEN ToNumeric(df'[i].c[CurOp.column]).v
                = Clamped(ToNumeric(df[i].c[CurOp.column]).v, CurOp.chk.min, CurOp.chk.max)
         ELSE df'[i].c[CurOp.column] = df[i].c[CurOp.column]]_vars

\* The dataset is still the one that was loaded: no fix pass has begun.
Evaluated == pc \notin {"evaluate", "crashed"} /\ fixi = 0
Exported == Evaluated /\ pc # "samples"

\* The rows a configured column check flags.
FlaggedBy(chk, cname, d) ==
  CASE chk.type = "range" -> MaskRange(d, cname, chk.min, chk.max)
    [] chk.type = "enum" -> MaskEnum(d, cname, IF chk.allowed.has THEN chk.allowed.v ELSE <<>>)
    [] chk.type = "null_rate" -> MaskNull(d, cname)
    [] chk.type = "freshness" -> MaskFreshness(d, cname, chk.max_age_days)
    [] OTHER -> {}

\* No configured check flags a row of d.
NoCheckFlags(rs, d) ==
  \A ti \in DOMAIN rs :
    /\ \A k \in DOMAIN rs[ti].checks :
         rs[ti].checks[k].type = "duplicate" => MaskDuplicate(d, rs[ti].checks[k].subset) = {}
    /\ \A j \in DOMAIN rs[ti].columns :
         rs[ti].columns[j].name \in ColNames =>
           \A k \in DOMAIN rs[ti].columns[j].checks :
             FlaggedBy(rs[ti].columns[j].checks[k], rs[ti].columns[j].name, d) = {}

\* Checks written in the rule document, at either level, of any kind.
ConfiguredChecks(rs) ==
  SumSeq([ti \in DOMAIN rs |->
    Len(rs[ti].checks)
    + SumSeq([j \in DOMAIN rs[ti].columns |-> Len(rs[ti].columns[j].checks)])])

\* Checks the engine evaluates: table-level duplicate checks and the checks
\* of column rules whose column is in the dataset.
EvaluatedChecks(rs) ==
  SumSeq([ti \in DOMAIN rs |->
    Cardinality({k \in DOMAIN rs[ti].checks : rs[ti].checks[k].type = "duplicate"})
    + SumSeq([j \in DOMAIN rs[ti].columns |->
        IF rs[ti].columns[j].name \in ColNames
        THEN Len(rs[ti].columns[j].checks) ELSE 0])])

\* C8 as stated: with no check flagging a row, failed = 0, passed is the
\* number of checks configured in the rule document and failure_samples is
\* empty; and passed + failed is the number of Check Results.
C8_ZeroViolationAllConfigured ==
  /\ passed + failed = Len(checks)
  /\ (Exported /\ NoCheckFlags(rules, df)) =>
       failed = 0 /\ passed = ConfiguredChecks(rules) /\ failure_samples = <<>>

\* C8 amended: with no check flagging a row, failed = 0, failure_samples is
\* empty and passed is the number of checks evaluated: the table-level
\* duplicate checks and the checks of column rules whose column exists.  In
\* every run passed + failed is the number of Check Results, and results.json
\* carries these values.
C8_ZeroViolationEvaluated ==
  /\ passed + failed = Len(checks)
  /\ (Exported /\ NoCheckFlags(rules, df)) =>
       failed = 0 /\ passed = EvaluatedChecks(rules) /\ failure_samples = <<>>
  /\ results_json # <<>> =>
       /\ results_json[1].passed = passed
       /\ results_json[1].failed = failed
       /\ results_json[1].checks = checks
       /\ results_json[1].failure_samples = failure_samples

\* C8 witness: a finished run over a dataset no check flags, with passing
\* checks and with configured checks that were not evaluated.
C8_Witness ==
  /\ pc = "done" /\ fixi = 0 /\ df # <<>>
  /\ NoCheckFlags(rules, df)
  /\ passed = 3
  /\ ConfiguredChecks(rules) > passed

\* C9: after the export every failing Check Result has a failure_samples
\* entry under its name whose file holds the first SampleLimit rows its own
\* predicate flags, in dataset order, and no passing Check Result's name has
\* an entry.
C9_SamplePerFailingCheck ==
  Exported =>
    \A i \in DOMAIN checks :
      IF checks[i].status = "fail"
      THEN /\ checks[i].name \in DOMAIN failure_samples
           /\ sample_files[failure_samples[checks[i].name]]
                = Cells(HeadN(Loc(df, SampleMask(checks[i], df).v), SampleLimit))
      ELSE checks[i].name \notin DOMAIN failure_samples

\* The duplicate checks of the rule document, in document order.
DocDuplicateChecks(rs) ==
  Flatten([ti \in DOMAIN rs |->
    LET dups == SelectSeq(rs[ti].checks, LAMBDA chk : chk.type = "duplicate")
    IN [k \in DOMAIN dups |-> [table |-> rs[ti].name, subset |-> dups[k].subset]]])

\* Rows of d that repeat an earlier row on cols: the rows less the distinct
\* value combinations.
RepeatCount(d, cols) ==
  Len(d) - Cardinality({[col \in cols |-> d[i].c[col]] : i \in DOMAIN d})

\* C10: the Check Results of type duplicate are, one for one and in order,
\* those of the document's duplicate checks: named <table>.duplicate, count
\* the number of rows repeating an earlier row on the subset (all columns
\* when the subset is absent or empty), status fail iff count > 0.
C10_DuplicateEvaluation ==
  Evaluated =>
    LET res == SelectSeq(checks, LAMBDA c : c.type = "duplicate")
        doc == DocDuplicateChecks(rules)
    IN /\ Len(res) = Len(doc)
       /\ \A i \in DOMAIN res :
            LET cols == IF doc[i].subset.has /\ Len(doc[i].subset.v) > 0
                        THEN {doc[i].subset.v[k] : k \in DOMAIN doc[i].subset.v}
                        ELSE ColNames
            IN /\ res[i].name = <<doc[i].table, "duplicate">>
               /\ res[i].count = RepeatCount(df, cols)
               /\ (res[i].status = "fail") <=> (res[i].count > 0)
               /\ res[i].status \in {"pass", "fail"}

\* C10 witness: a duplicate check on subset [a] counted a row that differs
\* from the earlier one in column b.
C10_Witness ==
  /\ Evaluated
  /\ \E i \in DOMAIN checks :
       /\ checks[i].type = "duplicate"
       /\ checks[i].params.subset = Some(<<"a">>)
       /\ checks[i].count = 1 /\ checks[i].status = "fail"
       /\ MaskDuplicate(df, NoSeq) = {}

\* The fix pass of a run over the cleaned.csv of a previous run is over.
SecondPass ==
  run = 2 /\ pc \in {"guard_row", "guard_cell", "fix_report", "cleaned", "viz", "done"}

HasAction(rep, kind) == \E i \in DOMAIN rep.actions : rep.actions[i].action = kind

\* The fixer calls of the document besides trim_strings are one call, of
\* the given kind.
SoleStep(op) ==
  LET calls == SelectSeq(FixPlan(rules), LAMBDA o : o.op # "trim")
  IN Len(calls) = 1 /\ calls[1].op = op

\* C7 as stated: the second fix pass, over the cleaned.csv of the first and
\* with the same rule document, records no Fix Action at all.
C7_FixIdempotent ==
  SecondPass => report.actions = <<>>

\* C7 amended: the second pass records no trim_strings action; under a
\* document whose only fixing check is a range check it records nothing;
\* under a document whose only fixing check is an enum (or a freshness)
\* check, after a first pass whose trim changed nothing and that recorded
\* quarantine_invalid_enum (quarantine_unparsed_dates), it records that
\* action again with the same affected count, these steps repairing nothing.
C7_PartialIdempotence ==
  SecondPass =>
    /\ ~HasAction(report, "trim_strings")
    /\ SoleStep("clip") => report.actions = <<>>
    /\ \A step \in {<<"enum", "quarantine_invalid_enum">>, <<"dates", "quarantine_unparsed_dates">>} :
         (SoleStep(step[1]) /\ HasAction(first_report, step[2])
            /\ ~HasAction(first_report, "trim_strings"))
           => report.actions = first_report.actions

\* C7 witness: a finished second pass that recorded nothing although the
\* first clipped a cell, under a document whose only fixing check is a range.
C7_Witness ==
  /\ SecondPass /\ pc = "done"
  /\ SoleStep("clip")
  /\ HasAction(first_report, "clip")
  /\ report.actions = <<>>

\* A second pass that records the enum action of the first again.
C7_EnumRecurs ==
  /\ SecondPass /\ SoleStep("enum")
  /\ HasAction(first_report, "quarantine_invalid_enum")
  /\ report.actions = first_report.actions

\* The column-level checks of one type on columns of the dataset, in
\* document order.
DocColumnChecks(rs, ty) ==
  Flatten([ti \in DOMAIN rs |->
    Flatten([j \in DOMAIN rs[ti].columns |->
      IF rs[ti].columns[j].name \in ColNames
      THEN LET sel == SelectSeq(rs[ti].columns[j].checks, LAMBDA chk : chk.type = ty)
           IN [k \in DOMAIN sel |->
                 [table |-> rs[ti].name, column |-> rs[ti].columns[j].name, chk |-> sel[k]]]
      ELSE <<>>])])

ResultsOfType(ty) == SelectSeq(checks, LAMBDA c : c.type = ty)

\* The Check Results of one type answer the document's checks of that type
\* one for one, in order, each with the count and failure given by
\* Expect(column, check) = <<count, fails>>.
ResultsMatch(ty, Expect(_, _)) ==
  LET res == ResultsOfType(ty)
      doc == DocColumnChecks(rules, ty)
  IN /\ Len(res) = Len(doc)
     /\ \A i \in DOMAIN res :
          /\ res[i].table = doc[i].table
          /\ res[i].column = doc[i].column
          /\ res[i].count = Expect(doc[i].column, doc[i].chk)[1]
          /\ (res[i].status = "fail") <=> Expect(doc[i].column, doc[i].chk)[2]
          /\ res[i].status \in {"pass", "fail"}

\* Cells of the column that coerce to a number below min or above max.
OutOfRange(col, chk) ==
  LET n == Cardinality({i \in DOMAIN df :
             /\ df[i].c[col].k \in {"num", "numstr"}
             /\ \/ chk.min.has /\ df[i].c[col].n < chk.min.v
                \/ chk.max.has /\ df[i].c[col].n > chk.max.v})
  IN <<n, n > 0>>

\* C11: with a range check on a present column, whatever bounds are set,
\* evaluation completes, and the check has one Check Result whose count is
\* the number of cells that coerce to a number below min or above max;
\* status is fail iff count > 0.
C11_RangeEvaluation ==
  /\ (pc = "crashed") => DocColumnChecks(rules, "range") = <<>>
  /\ Evaluated => ResultsMatch("range", OutOfRange)

\* C11 where it holds: the evaluation ends in an exception exactly when some
\* range check on a present column has neither bound, and the counts are as
\* stated in every evaluation that completes.
C11_RangeWithABound ==
  /\ pc # "evaluate" =>
       ((pc = "crashed") <=>
          \E i \in DOMAIN DocColumnChecks(rules, "range") :
            /\ ~DocColumnChecks(rules, "range")[i].chk.min.has
            /\ ~DocColumnChecks(rules, "range")[i].chk.max.has)
  /\ Evaluated => ResultsMatch("range", OutOfRange)

AllowedValues(chk) == IF chk.allowed.has THEN {chk.allowed.v[k] : k \in DOMAIN chk.allowed.v} ELSE {}

\* Cells of the column that are missing or hold a value outside allowed.
NotAllowed(col, chk) ==
  LET n == Cardinality({i \in DOMAIN df :
             df[i].c[col].k = "nan" \/ df[i].c[col] \notin AllowedValues(chk)})
  IN <<n, n > 0>>

\* Cells of the column whose value is outside allowed, a missing cell being
\* a member when allowed lists a missing value.
NotMember(col, chk) ==
  LET n == Cardinality({i \in DOMAIN df : df[i].c[col] \notin AllowedValues(chk)})
  IN <<n, n > 0>>

\* C12: an enum check on a present column has count equal to the number of
\* cells that are missing or whose value is not a member of allowed, and
\* status fail iff count > 0.
C12_EnumEvaluation ==
  Evaluated => ResultsMatch("enum", NotAllowed)

\* C12 where it holds: the count is that of the cells outside allowed by
\* isin, which takes a missing cell for a member of a list that holds NaN.
C12_EnumByMembership ==
  Evaluated => ResultsMatch("enum", NotMember)

\* Missing cells of the column, and whether they exceed a configured limit;
\* max_null_frac is <<p, q>> for p/q, the fraction is count / max(1, rows).
NullsOverLimit(col, chk) ==
  LET n == Cardinality({i \in DOMAIN df : df[i].c[col].k = "nan"})
      rows == IF Len(df) > 1 THEN Len(df) ELSE 1
      by_count == ~chk.max_nulls.has \/ n <= chk.max_nulls.v
      by_frac == ~chk.max_null_frac.has
                   \/ n * chk.max_null_frac.v[2] <= chk.max_null_frac.v[1] * rows
  IN <<n, ~(by_count /\ by_frac)>>

\* C13: a null_rate check on a present column has count equal to the number
\* of missing cells of the column in the dataset as loaded, and status pass
\* iff (max_nulls absent or count <= max_nulls) and (max_null_frac absent or
\* count / max(1, rows) <= max_null_frac), on a dataset without rows too.
C13_NullRateEvaluation ==
  Evaluated => ResultsMatch("null_rate", NullsOverLimit)

\* C13 witness: a null_rate check passes with one missing cell in two rows,
\* on its fraction limit.
C13_Witness ==
  /\ Evaluated /\ Len(df) = 2
  /\ \E i \in DOMAIN checks :
       /\ checks[i].type = "null_rate"
       /\ checks[i].params.max_null_frac.has
       /\ checks[i].count = 1
       /\ checks[i].status = "pass"

\* A null_rate check with a count limit evaluated on a dataset without rows.
C13_NoRows ==
  /\ Evaluated /\ Len(df) = 0
  /\ \E i \in DOMAIN checks :
       checks[i].type = "null_rate" /\ checks[i].params.max_nulls.has /\ checks[i].status = "pass"

\* Rows whose value is present but does not parse as a date, or parses to an
\* age in days above max_age_days when that is set; the check fails only
\* with max_age_days set.
StaleOrUnparsed(col, chk) ==
  LET unparsed == {i \in DOMAIN df : df[i].c[col].k # "nan" /\ ~ToDatetime(df[i].c[col]).has}
      stale == {i \in DOMAIN df :
                  /\ chk.max_age_days.has
                  /\ ToDatetime(df[i].c[col]).has
                  /\ ToDatetime(df[i].c[col]).v > chk.max_age_days.v}
      n == Cardinality(unparsed \cup stale)
  IN <<n, chk.max_age_days.has /\ n > 0>>

\* C14: a freshness check on a present column counts the rows whose value
\* is present but unparsable or, with max_age_days set, older than
\* max_age_days, with or without max_age_days; its status is fail iff
\* max_age_days is set and count > 0, so without max_age_days it passes
\* whatever the count.
C14_FreshnessAsymmetry ==
  Evaluated => ResultsMatch("freshness", StaleOrUnparsed)

\* C14 witness: a freshness check without max_age_days counts two unparsable
\* values and passes.
C14_Witness ==
  /\ Evaluated
  /\ \E i \in DOMAIN checks :
       /\ checks[i].type = "freshness"
       /\ ~checks[i].params.max_age_days.has
       /\ checks[i].count = 2
       /\ checks[i].status = "pass"

\* A freshness check with max_age_days passes on a date of exactly that age
\* and fails on an older one.
C14_AgeBound ==
  /\ Evaluated /\ Len(df) = 1 /\ df[1].c["a"].k = "date"
  /\ \E i \in DOMAIN checks :
       /\ checks[i].type = "freshness" /\ checks[i].status = "pass" /\ checks[i].count = 0
       /\ checks[i].params.max_age_days = Some(df[1].c["a"].n)

\* The sequence without the later repetitions of a member.
RECURSIVE Distinct(_)
Distinct(q) ==
  IF q = <<>> THEN <<>>
  ELSE LET init == Distinct(SubSeq(q, 1, Len(q) - 1))
       IN IF \E i \in DOMAIN init : init[i] = q[Len(q)] THEN init
          ELSE Append(init, q[Len(q)])

HeatmapWritten == viz # <<>> /\ FailingNullCols(checks) # <<>>

\* The grid has one row per each of the first HeatmapRows dataset rows, and
\* a row has one 0/1 entry per selected column: 1 for a missing cell.
GridShape ==
  LET rows == HeadN(df, HeatmapRows)
  IN /\ Len(viz[1].grid) = Len(rows)
     /\ \A i \in DOMAIN viz[1].grid :
          /\ Len(viz[1].grid[i]) = Len(viz[1].cols)
          /\ \A j \in DOMAIN viz[1].cols :
               viz[1].grid[i][j] = IF rows[i].c[viz[1].cols[j]].k = "nan" THEN 1 ELSE 0

\* C15: with visualization on and a null_rate check failing, the heatmap's
\* cols are the distinct columns of the failing null_rate checks in
\* first-encountered order, without repetition, existing columns only, at
\* most HeatmapMaxCols of them, and the grid has one row per each of the
\* first HeatmapRows dataset rows with one 0/1 entry per selected column.
C15_HeatmapDistinctColumns ==
  HeatmapWritten =>
    /\ viz[1].cols = HeadN(SelectSeq(Distinct(FailingNullCols(checks)),
                                     LAMBDA c : c \in ColNames), HeatmapMaxCols)
    /\ GridShape

\* C15 where it holds: cols has one entry per failing null_rate check, in
\* the order of the Check Results, a column repeated as often as it fails.
C15_HeatmapColumnPerCheck ==
  HeatmapWritten =>
    /\ viz[1].cols = HeadN(SelectSeq(FailingNullCols(checks),
                                     LAMBDA c : c \in ColNames), HeatmapMaxCols)
    /\ GridShape

====
